---- MODULE Spec2Model ----
(***************************************************************************)
(* Model of src/mlb_fetch_schedule.py: the scheduled job `main` that       *)
(* deletes the published schedule file, fetches the day's games, fetches   *)
(* the odds events, builds one record per game, serialises the records to  *)
(* a scratch file and uploads it to a fixed key of an object store.        *)
(*                                                                         *)
(* Strings the program inspects (team names, timestamps) are sequences of  *)
(* one-character strings, so that lower(), strptime() and strftime() are   *)
(* computed character by character.                                        *)
(***************************************************************************)
EXTENDS Integers, Sequences, FiniteSets, TLC

VARIABLES
    trigger,        \* the invocations the scheduler fires in this behaviour
    pc,             \* per invocation: the statement of main about to run
    schedule_data,  \* per invocation: main's local schedule_data
    events,         \* per invocation: process_game_data's local events
    games,          \* per invocation: main's local games (the record list)
    tmp_file,       \* the scratch file /tmp/mlb_schedule.json
    s3,             \* the object at key mlb_schedule.json of the bucket
    err,            \* per invocation: the exception main caught, if any
    printed,        \* per invocation: the line main printed, if any
    log,            \* per invocation: the stages completed so far, in order
    overlapped      \* some invocation started while another was running

vars == <<trigger, pc, schedule_data, events, games, tmp_file, s3, err,
          printed, log, overlapped>>

(***************************************************************************)
(* Bounds of the model.                                                    *)
(***************************************************************************)
MaxGames == 2
MaxEvents == 2
MaxGamesOverlap == 1
MaxEventsOverlap == 1

Invocations == {"run1", "run2"}

(***************************************************************************)
(* Characters and strings.                                                 *)
(***************************************************************************)
UpperCase == <<"A","B","C","D","E","F","G","H","I","J","K","L","M",
               "N","O","P","Q","R","S","T","U","V","W","X","Y","Z">>
LowerCase == <<"a","b","c","d","e","f","g","h","i","j","k","l","m",
               "n","o","p","q","r","s","t","u","v","w","x","y","z">>
DigitChars == <<"0","1","2","3","4","5","6","7","8","9">>

IsDigit(c) == \E i \in 1..10 : DigitChars[i] = c
DigitVal(c) == (CHOOSE i \in 1..10 : DigitChars[i] = c) - 1

LowerChar(c) ==
    IF \E i \in 1..26 : UpperCase[i] = c
    THEN LowerCase[CHOOSE i \in 1..26 : UpperCase[i] = c]
    ELSE c

\* a plausible slip: the comparison is made on the names as they are
LowerAsIs(s) == s

\* str.lower()
Lower(s) == [i \in 1..Len(s) |-> LowerChar(s[i])]

(***************************************************************************)
(* convert_utc_to_est: strptime with '%Y-%m-%dT%H:%M:%SZ' (zero-padded     *)
(* fields), localize as UTC, astimezone(US/Eastern) with the rules in      *)
(* force since 2007, strftime "EST %H:%M".                                 *)
(***************************************************************************)
Num2(s, i) == 10 * DigitVal(s[i]) + DigitVal(s[i + 1])
YearOf(s) == 100 * Num2(s, 1) + Num2(s, 3)
MonthOf(s) == Num2(s, 6)
DayOf(s) == Num2(s, 9)
HourOf(s) == Num2(s, 12)
MinuteOf(s) == Num2(s, 15)
SecondOf(s) == Num2(s, 18)

IsLeap(y) == (y % 4 = 0 /\ y % 100 # 0) \/ y % 400 = 0
DaysIn(y, m) ==
    IF m = 2 THEN (IF IsLeap(y) THEN 29 ELSE 28)
    ELSE IF m \in {4, 6, 9, 11} THEN 30 ELSE 31

DigitPositions == {1, 2, 3, 4, 6, 7, 9, 10, 12, 13, 15, 16, 18, 19}

\* datetime.strptime(utc_time_str, '%Y-%m-%dT%H:%M:%SZ') does not raise
ParsesAsUtc(s) ==
    /\ Len(s) = 20
    /\ s[5] = "-" /\ s[8] = "-" /\ s[11] = "T"
    /\ s[14] = ":" /\ s[17] = ":" /\ s[20] = "Z"
    /\ \A i \in DigitPositions : IsDigit(s[i])
    /\ YearOf(s) >= 1
    /\ MonthOf(s) \in 1..12
    /\ DayOf(s) \in 1..DaysIn(YearOf(s), MonthOf(s))
    /\ HourOf(s) \in 0..23
    /\ MinuteOf(s) \in 0..59
    /\ SecondOf(s) \in 0..61

MonthShift == <<0, 3, 2, 5, 0, 3, 5, 1, 4, 6, 2, 4>>

\* day of the week, 0 = Sunday
DayOfWeek(y, m, d) ==
    LET yy == IF m < 3 THEN y - 1 ELSE y
    IN  (yy + (yy \div 4) - (yy \div 100) + (yy \div 400) + MonthShift[m] + d) % 7

SecondSundayOfMarch(y) == CHOOSE d \in 8..14 : DayOfWeek(y, 3, d) = 0
FirstSundayOfNovember(y) == CHOOSE d \in 1..7 : DayOfWeek(y, 11, d) = 0

HourOfYear(m, d, h) == (m * 32 + d) * 24 + h

\* US/Eastern observes daylight time from 07:00 UTC on the second Sunday of
\* March until 06:00 UTC on the first Sunday of November
IsDaylightTime(s) ==
    LET y == YearOf(s)
        t == HourOfYear(MonthOf(s), DayOf(s), HourOf(s))
    IN  /\ t >= HourOfYear(3, SecondSundayOfMarch(y), 7)
        /\ t < HourOfYear(11, FirstSundayOfNovember(y), 6)

TwoDigits(n) == <<DigitChars[(n \div 10) + 1], DigitChars[(n % 10) + 1]>>

convert_utc_to_est(utc_time_str) ==
    LET offset == IF IsDaylightTime(utc_time_str) THEN 4 ELSE 5
        hour   == (HourOf(utc_time_str) + 24 - offset) % 24
    IN  <<"E", "S", "T", " ">> \o TwoDigits(hour) \o <<":">>
            \o TwoDigits(MinuteOf(utc_time_str))

(***************************************************************************)
(* Python values. None is a record of its own; a dict is a record (a       *)
(* function on its keys).                                                  *)
(***************************************************************************)
None == [none |-> TRUE]

\* dict.get(key, default)
DictGet(d, key, default) == IF key \in DOMAIN d THEN d[key] ELSE default

\* d[key] = value on a dict
DictSet(d, key, value) ==
    [k \in DOMAIN d \cup {key} |-> IF k = key THEN value ELSE d[k]]

\* the sequences over S of length at most n
RECURSIVE SeqsUpTo(_, _)
SeqsUpTo(S, n) ==
    IF n = 0 THEN {<<>>}
    ELSE LET shorter == SeqsUpTo(S, n - 1)
         IN  shorter \cup {Append(q, x) : q \in shorter, x \in S}

(***************************************************************************)
(* The upstream responses the two fetches are drawn from.                  *)
(***************************************************************************)
Mets == <<"M", "e", "t", "s">>
METS == <<"M", "E", "T", "S">>
Cubs == <<"C", "u", "b", "s">>
CitiField == <<"C", "i", "t", "i">>
Wrigley == <<"W", "r", "i", "g">>

July4Night == <<"2","0","2","4","-","0","7","-","0","4","T","2","3",":","1","0",":","0","0","Z">>
July4Day == <<"2","0","2","4","-","0","7","-","0","4","T","1","7",":","0","5",":","0","0","Z">>
July3Night == <<"2","0","2","4","-","0","7","-","0","3","T","2","3",":","1","0",":","0","0","Z">>
\* an offset variant, which the strict format string does not accept
July4Offset == <<"2","0","2","4","-","0","7","-","0","4","T","2","3",":","1","0","+","0","0",":","0","0">>

ScheduleGame(gameDate, away, home, venue) ==
    [gameDate |-> gameDate,
     teams    |-> [away |-> [team |-> [name |-> away]],
                   home |-> [team |-> [name |-> home]]],
     venue    |-> [name |-> venue]]

MetsHomeNight == ScheduleGame(July4Night, Cubs, Mets, CitiField)
MetsHomeDay == ScheduleGame(July4Day, Cubs, Mets, CitiField)
CubsHome == ScheduleGame(July4Day, Mets, Cubs, Wrigley)
BadDateGame == ScheduleGame(July4Offset, Mets, Cubs, Wrigley)
YesterdayGame == ScheduleGame(July3Night, Mets, Cubs, Wrigley)

OddsEvent(id, home) == [id |-> id, home_team |-> home]

AllEvents == {OddsEvent(<<"e", "1">>, METS),
              OddsEvent(<<"e", "2">>, Mets),
              OddsEvent(<<"e", "3">>, Cubs)}

AllGames == {MetsHomeNight, MetsHomeDay, CubsHome, BadDateGame}

\* with one invocation the responses range over all games and events; with
\* overlapping invocations over one game and one event
Single == Cardinality(trigger) = 1
GamePool == IF Single THEN AllGames ELSE {MetsHomeNight}
EventPool == IF Single THEN AllEvents ELSE {OddsEvent(<<"e", "2">>, Mets)}
GamesBound == IF Single THEN MaxGames ELSE MaxGamesOverlap
EventsBound == IF Single THEN MaxEvents ELSE MaxEventsOverlap

\* response.json() of the schedule request: a dict that may lack "dates",
\* whose "dates" may be empty, whose first entry may lack "games", and that
\* may hold a second date entry
ScheduleResponses ==
    {[totalGames |-> <<>>], [dates |-> <<>>], [dates |-> <<[totalItems |-> <<>>]>>]}
    \cup {[dates |-> <<[games |-> gs]>>] : gs \in SeqsUpTo(GamePool, GamesBound)}
    \cup {[dates |-> <<[games |-> gs], [games |-> <<YesterdayGame>>]>>] :
              gs \in SeqsUpTo(GamePool, 1)}

\* response.json() of the events request
EventsResponses == SeqsUpTo(EventPool, EventsBound)

(***************************************************************************)
(* process_game_data, lines 63-78: one record per game, the id taken from  *)
(* the events whose home team is the game's, compared in lower case.       *)
(***************************************************************************)
GameInfo(game) ==
    [date      |-> game.gameDate,
     time      |-> convert_utc_to_est(game.gameDate),
     away_team |-> game.teams.away.team.name,
     home_team |-> game.teams.home.team.name,
     venue     |-> game.venue.name]

SameHomeTeam(event, game_info) ==
    Lower(event.home_team) = Lower(game_info.home_team)

\* a plausible slip: the scan stops at the first event that matches
RECURSIVE ScanEventsFirstMatch(_, _, _)
ScanEventsFirstMatch(game_info, evs, j) ==
    IF j > Len(evs) THEN game_info
    ELSE IF SameHomeTeam(evs[j], game_info)
         THEN DictSet(game_info, "id", evs[j].id)
         ELSE ScanEventsFirstMatch(game_info, evs, j + 1)

\* the inner loop, from event j on: every matching event overwrites the id
RECURSIVE ScanEvents(_, _, _)
ScanEvents(game_info, evs, j) ==
    IF j > Len(evs) THEN game_info
    ELSE ScanEvents(IF SameHomeTeam(evs[j], game_info)
                    THEN DictSet(game_info, "id", evs[j].id)
                    ELSE game_info,
                    evs, j + 1)

\* a plausible slip: each record is put in front of the list
RECURSIVE ProcessGamesPrepending(_, _, _, _)
ProcessGamesPrepending(gs, evs, i, game_info_list) ==
    IF i > Len(gs) THEN game_info_list
    ELSE ProcessGamesPrepending(gs, evs, i + 1,
             <<ScanEvents(GameInfo(gs[i]), evs, 1)>> \o game_info_list)

\* the outer loop, from game i on, appending to game_info_list
RECURSIVE ProcessGames(_, _, _, _)
ProcessGames(gs, evs, i, game_info_list) ==
    IF i > Len(gs) THEN game_info_list
    ELSE ProcessGames(gs, evs, i + 1,
             Append(game_info_list, ScanEvents(GameInfo(gs[i]), evs, 1)))

\* line 56 without the subscript: data.get("dates", [])
DatesOf(data) == DictGet(data, "dates", <<>>)

\* line 56: data.get("dates", [])[0].get("games", [])
GamesOf(data) == DictGet(DatesOf(data)[1], "games", <<>>)

(***************************************************************************)
(* save_schedule: json.dump(data, f, indent=4). The JSON text is an array  *)
(* of objects, each the key/value pairs of a record in insertion order.    *)
(***************************************************************************)
KeyOrder == <<"date", "time", "away_team", "home_team", "venue", "id">>

JsonObject(d) ==
    LET keys == SelectSeq(KeyOrder, LAMBDA k : k \in DOMAIN d)
    IN  [n \in 1..Len(keys) |-> <<keys[n], d[keys[n]]>>]

JsonDump(data) == [i \in 1..Len(data) |-> JsonObject(data[i])]

NoFile == [exists |-> FALSE, body |-> <<>>]
File(body) == [exists |-> TRUE, body |-> body]

\* what an earlier run published and left in its scratch file
YesterdayFile == File(JsonDump(ProcessGames(<<YesterdayGame>>, <<>>, 1, <<>>)))

(***************************************************************************)
(* main: the statements in the order of lines 164-169, and the handler of  *)
(* lines 170-171.                                                          *)
(***************************************************************************)
Successor(order, stage) ==
    order[(CHOOSE i \in 1..Len(order) : order[i] = stage) + 1]

\* a plausible slip: the events are fetched before the schedule
StageAfterEventsFirst(stage) ==
    Successor(<<"idle", "delete", "fetch_events", "get_schedule",
                "process_game_data", "build", "save", "upload", "report",
                "success">>, stage)

\* a plausible slip: the records are never written to the scratch file
StageAfterNoSave(stage) ==
    Successor(<<"idle", "delete", "get_schedule", "process_game_data",
                "fetch_events", "build", "upload", "report", "success">>,
              stage)

\* a plausible slip: the scratch file is never uploaded
StageAfterNoUpload(stage) ==
    Successor(<<"idle", "delete", "get_schedule", "process_game_data",
                "fetch_events", "build", "save", "report", "success">>,
              stage)

\* the statement that follows `stage` when it completes without raising
StageAfter(stage) ==
    Successor(<<"idle", "delete", "get_schedule", "process_game_data",
                "fetch_events", "build", "save", "upload", "report",
                "success">>, stage)

Terminal == {"success", "failed"}
Running(r) == pc[r] \notin {"idle"} \cup Terminal

Completes(r, stage) ==
    /\ pc' = [pc EXCEPT ![r] = StageAfter(pc[r])]
    /\ log' = [log EXCEPT ![r] = Append(@, stage)]

\* a plausible slip: the handler is too narrow and the exception leaves main
RaiseUncaught(r, e) ==
    /\ pc' = [pc EXCEPT ![r] = "crashed"]
    /\ err' = [err EXCEPT ![r] = e]
    /\ UNCHANGED <<trigger, schedule_data, events, games, tmp_file, s3,
                   printed, log, overlapped>>

\* a plausible slip: the handler puts the scratch file back at the key
RaiseRestoring(r, e) ==
    /\ pc' = [pc EXCEPT ![r] = "failed"]
    /\ err' = [err EXCEPT ![r] = e]
    /\ printed' = [printed EXCEPT ![r] = "An error occurred"]
    /\ s3' = IF tmp_file.exists THEN tmp_file ELSE s3
    /\ UNCHANGED <<trigger, schedule_data, events, games, tmp_file, log,
                   overlapped>>

\* a statement of the try block raises e: the handler prints and main returns
Raise(r, e) ==
    /\ pc' = [pc EXCEPT ![r] = "failed"]
    /\ err' = [err EXCEPT ![r] = e]
    /\ printed' = [printed EXCEPT ![r] = "An error occurred"]
    /\ UNCHANGED <<trigger, schedule_data, events, games, tmp_file, s3, log,
                   overlapped>>

\* the scheduler calls main
Invoke(r) ==
    /\ r \in trigger
    /\ pc[r] = "idle"
    /\ pc' = [pc EXCEPT ![r] = StageAfter("idle")]
    /\ overlapped' = (overlapped \/ \E o \in Invocations \ {r} : Running(o))
    /\ UNCHANGED <<trigger, schedule_data, events, games, tmp_file, s3, err,
                   printed, log>>

\* line 164. The object store removes the object (an absent one is no
\* error), or the request fails and the object is left as it was.
delete_from_s3(r) ==
    /\ pc[r] = "delete"
    /\ \/ /\ s3' = NoFile
          /\ Completes(r, "delete")
          /\ UNCHANGED <<trigger, schedule_data, events, games, tmp_file,
                         err, printed, overlapped>>
       \/ Raise(r, "PublishError")

\* line 165
get_schedule(r) ==
    /\ pc[r] = "get_schedule"
    /\ \/ \E response \in ScheduleResponses :
              /\ schedule_data' = [schedule_data EXCEPT ![r] = response]
              /\ Completes(r, "get_schedule")
              /\ UNCHANGED <<trigger, events, games, tmp_file, s3, err,
                             printed, overlapped>>
       \/ Raise(r, "RequestException")

\* line 166, entering process_game_data: line 56
process_game_data_entry(r) ==
    /\ pc[r] = "process_game_data"
    /\ \/ /\ DatesOf(schedule_data[r]) # <<>>
          /\ pc' = [pc EXCEPT ![r] = StageAfter(pc[r])]
          /\ UNCHANGED <<trigger, schedule_data, events, games, tmp_file,
                         s3, err, printed, log, overlapped>>
       \/ /\ DatesOf(schedule_data[r]) = <<>>
          /\ Raise(r, "IndexError")

\* line 60
fetch_events(r) ==
    /\ pc[r] = "fetch_events"
    /\ \/ \E response \in EventsResponses :
              /\ events' = [events EXCEPT ![r] = response]
              /\ Completes(r, "fetch_events")
              /\ UNCHANGED <<trigger, schedule_data, games, tmp_file, s3,
                             err, printed, overlapped>>
       \/ Raise(r, "Exception")

\* lines 57 and 63-78, and the assignment of line 166
process_game_data(r) ==
    LET gs == GamesOf(schedule_data[r])
    IN  /\ pc[r] = "build"
        /\ \/ /\ \A i \in 1..Len(gs) : ParsesAsUtc(gs[i].gameDate)
              /\ games' = [games EXCEPT ![r] =
                               ProcessGames(gs, events[r], 1, <<>>)]
              /\ Completes(r, "build")
              /\ UNCHANGED <<trigger, schedule_data, events, tmp_file, s3,
                             err, printed, overlapped>>
           \/ /\ \E i \in 1..Len(gs) : ~ParsesAsUtc(gs[i].gameDate)
              /\ Raise(r, "ValueError")

\* line 167
save_schedule(r) ==
    /\ pc[r] = "save"
    /\ \/ /\ tmp_file' = File(JsonDump(games[r]))
          /\ Completes(r, "save")
          /\ UNCHANGED <<trigger, schedule_data, events, games, s3, err,
                         printed, overlapped>>
       \/ Raise(r, "OSError")

\* line 168. The object store puts the scratch file at the key, or the
\* request fails (also when there is no scratch file) and the object is
\* left as it was.
upload_to_s3(r) ==
    /\ pc[r] = "upload"
    /\ \/ /\ tmp_file.exists
          /\ s3' = tmp_file
          /\ Completes(r, "upload")
          /\ UNCHANGED <<trigger, schedule_data, events, games, tmp_file,
                         err, printed, overlapped>>
       \/ Raise(r, "PublishError")

\* line 169
report_success(r) ==
    /\ pc[r] = "report"
    /\ printed' = [printed EXCEPT ![r] =
                       "Schedule fetched and saved successfully."]
    /\ Completes(r, "report")
    /\ UNCHANGED <<trigger, schedule_data, events, games, tmp_file, s3,
                   err, overlapped>>

main(r) ==
    \/ Invoke(r)
    \/ delete_from_s3(r)
    \/ get_schedule(r)
    \/ process_game_data_entry(r)
    \/ fetch_events(r)
    \/ process_game_data(r)
    \/ save_schedule(r)
    \/ upload_to_s3(r)
    \/ report_success(r)

Next == \E r \in Invocations : main(r)

InitLocals ==
    /\ pc = [r \in Invocations |-> "idle"]
    /\ schedule_data = [r \in Invocations |-> None]
    /\ events = [r \in Invocations |-> <<>>]
    /\ games = [r \in Invocations |-> <<>>]
    /\ err = [r \in Invocations |-> "none"]
    /\ printed = [r \in Invocations |-> ""]
    /\ log = [r \in Invocations |-> <<>>]
    /\ overlapped = FALSE
    /\ tmp_file \in {NoFile, YesterdayFile}
    /\ s3 \in {NoFile, YesterdayFile}

\* one invocation: the trigger the program is written for
Init == trigger = {"run1"} /\ InitLocals

\* two invocations that may overlap
InitOverlap == trigger = Invocations /\ InitLocals

Spec == Init /\ [][Next]_vars

SpecOverlap == InitOverlap /\ [][Next]_vars

(***************************************************************************)
(* The properties checked of the model.                                    *)
(***************************************************************************)
ClaimedOrder ==
    <<"delete", "get_schedule", "fetch_events", "build", "save", "upload",
      "report">>

\* the stage a statement belongs to: line 56 opens the events stage
StageOf(statement) ==
    IF statement = "process_game_data" THEN "fetch_events" ELSE statement

Done(r, stage) == \E i \in 1..Len(log[r]) : log[r][i] = stage

\* equality of two strings ignoring letter case
EqualIgnoringCase(a, b) ==
    /\ Len(a) = Len(b)
    /\ \A i \in 1..Len(a) : LowerChar(a[i]) = LowerChar(b[i])

HomeName(game) == game.teams.home.team.name

\* the events whose home team is the game's, ignoring case
MatchingEvents(r, game) ==
    {j \in 1..Len(events[r]) :
        EqualIgnoringCase(events[r][j].home_team, HomeName(game))}

Last(S) == CHOOSE j \in S : \A k \in S : k <= j

\* C1: in every run the stages complete in the order delete, schedule
\* fetch, events fetch, record building, local save, upload, success report;
\* the statement about to run is always the one after the stages completed,
\* so the events fetch starts only with the schedule in hand and the upload
\* only after both fetches, the build and the save.
C1_StagesInOrder ==
    \A r \in Invocations :
        LET n == Len(log[r])
        IN  /\ n <= Len(ClaimedOrder)
            /\ log[r] = SubSeq(ClaimedOrder, 1, n)
            /\ Running(r) =>
                   /\ n < Len(ClaimedOrder)
                   /\ StageOf(pc[r]) = ClaimedOrder[n + 1]
            /\ pc[r] = "success" => n = Len(ClaimedOrder)
            /\ pc[r] \in {"process_game_data", "fetch_events"} =>
                   schedule_data[r] # None
            /\ pc[r] = "upload" =>
                   /\ Done(r, "get_schedule") /\ Done(r, "fetch_events")
                   /\ Done(r, "build") /\ Done(r, "save")

C1_Witness ==
    \E r \in Invocations : pc[r] = "success" /\ log[r] = ClaimedOrder

C3_IdIffMatch ==
    \A r \in Invocations :
        Done(r, "build") =>
            LET gs == GamesOf(schedule_data[r])
            IN  /\ Len(games[r]) = Len(gs)
                /\ \A i \in 1..Len(gs) :
                       ("id" \in DOMAIN games[r][i])
                           <=> (MatchingEvents(r, gs[i]) # {})

C3_Witness ==
    \E r \in Invocations :
        /\ Done(r, "build")
        /\ events[r] = <<OddsEvent(<<"e", "1">>, METS)>>
        /\ \E i, k \in 1..Len(games[r]) :
               /\ "id" \in DOMAIN games[r][i]
               /\ "id" \notin DOMAIN games[r][k]

\* C4: the id of a record is the identifier of the last event, in the
\* order of the events list, that matches the game; two games with the same
\* home team get the same id, or both none.
C4_LastMatchWins ==
    \A r \in Invocations :
        Done(r, "build") =>
            LET gs == GamesOf(schedule_data[r])
            IN  /\ \A i \in 1..Len(gs) :
                       MatchingEvents(r, gs[i]) # {} =>
                           /\ i <= Len(games[r])
                           /\ "id" \in DOMAIN games[r][i]
                           /\ games[r][i].id =
                                  events[r][Last(MatchingEvents(r, gs[i]))].id
                /\ \A i, k \in 1..Len(gs) :
                       EqualIgnoringCase(HomeName(gs[i]), HomeName(gs[k])) =>
                           DictGet(games[r][i], "id", <<>>)
                               = DictGet(games[r][k], "id", <<>>)

C4_Witness ==
    \E r \in Invocations :
        /\ Done(r, "build")
        /\ \E i, k \in 1..Len(games[r]) :
               LET gs == GamesOf(schedule_data[r])
                   m == MatchingEvents(r, gs[i])
               IN  /\ i # k
                   /\ gs[i] # gs[k]
                   /\ HomeName(gs[i]) = HomeName(gs[k])
                   /\ \E a, b \in m : a < b /\ events[r][a].id # events[r][b].id
                   /\ games[r][i].id = events[r][Last(m)].id

\* C5: the records are as many as the games of the first date entry, the
\* i-th built from the i-th game; the array written to the scratch file and
\* the array published have the same objects in the same order.
C5_OneRecordPerGameInOrder ==
    \A r \in Invocations :
        LET gs == GamesOf(schedule_data[r])
            FromGame(obj, game) ==
                /\ obj[1] = <<"date", game.gameDate>>
                /\ obj[3] = <<"away_team", game.teams.away.team.name>>
                /\ obj[4] = <<"home_team", game.teams.home.team.name>>
                /\ obj[5] = <<"venue", game.venue.name>>
        IN  /\ Done(r, "build") =>
                /\ Len(games[r]) = Len(gs)
                /\ \A i \in 1..Len(gs) :
                       /\ games[r][i].date = gs[i].gameDate
                       /\ games[r][i].away_team = gs[i].teams.away.team.name
                       /\ games[r][i].home_team = gs[i].teams.home.team.name
                       /\ games[r][i].venue = gs[i].venue.name
            /\ Done(r, "save") =>
                /\ tmp_file.exists
                /\ Len(tmp_file.body) = Len(gs)
                /\ \A i \in 1..Len(gs) : FromGame(tmp_file.body[i], gs[i])
            /\ Done(r, "upload") =>
                /\ s3.exists
                /\ Len(s3.body) = Len(gs)
                /\ \A i \in 1..Len(gs) : FromGame(s3.body[i], gs[i])

C5_Witness ==
    \E r \in Invocations :
        /\ pc[r] = "success"
        /\ Len(events[r]) > 0
        /\ Len(s3.body) = 2
        /\ GamesOf(schedule_data[r])[1] # GamesOf(schedule_data[r])[2]
        /\ "id" \in DOMAIN games[r][1]
        /\ "id" \notin DOMAIN games[r][2]

\* C6: a run that fails on a schedule response with no date entry has
\* caught an empty-schedule error, not an index fault.
C6_EmptyDatesClassified ==
    \A r \in Invocations :
        ( /\ pc[r] = "failed"
          /\ log[r] = <<"delete", "get_schedule">>
          /\ DatesOf(schedule_data[r]) = <<>> )
            => err[r] = "EmptyScheduleError"

\* C7: when the run has reported success, the object at the key is exactly
\* the serialisation of the records the run built, whatever was published
\* or left in the scratch file before.
C7_PublishedIsThisRun ==
    \A r \in Invocations :
        pc[r] = "success" => s3 = File(JsonDump(games[r]))

C7_Witness ==
    \E r \in Invocations :
        /\ pc[r] = "success"
        /\ Len(games[r]) > 0
        /\ s3 = File(JsonDump(games[r]))
        /\ s3 # YesterdayFile

\* C8: the object at the key is deleted only after the records have been
\* built and written to the scratch file.
C8_DeleteAfterSave ==
    \A r \in Invocations :
        Done(r, "delete") => (Done(r, "build") /\ Done(r, "save"))

\* C9: a run that failed after its delete succeeded and before its upload
\* completed leaves no object at the key.
C9_FailedRunLeavesNoFile ==
    \A r \in Invocations :
        (pc[r] = "failed" /\ Done(r, "delete") /\ ~Done(r, "upload"))
            => ~s3.exists

C9_Witness ==
    \E r \in Invocations :
        /\ pc[r] = "failed" /\ err[r] = "PublishError"
        /\ log[r] = SubSeq(ClaimedOrder, 1, 5)
        /\ tmp_file = File(JsonDump(games[r]))
        /\ ~s3.exists

AllEnded == \A r \in Invocations : pc[r] \in {"idle"} \cup Terminal

SuccessButNoFile ==
    /\ AllEnded
    /\ \E r \in Invocations : pc[r] = "success"
    /\ ~s3.exists

\* C10: once every run has ended, a reported success with no object at the
\* key is possible only when more than one invocation ran; overlapping
\* invocations do reach it.
C10_OnlyWithTwoRuns ==
    SuccessButNoFile => Cardinality({r \in Invocations : pc[r] # "idle"}) > 1

C10_Witness ==
    /\ overlapped
    /\ SuccessButNoFile
    /\ \E a, b \in Invocations :
           /\ pc[a] = "success"
           /\ pc[b] = "failed" /\ Done(b, "delete") /\ ~Done(b, "upload")
====
